---------------------------- MODULE Spec2Model ----------------------------
(***************************************************************************)
(* Vendor / product catalogue reconciliation (help.py, app.py, app2.py,    *)
(* explor.py).  A DataFrame is a sequence of rows, a row is a record whose *)
(* fields are the columns.  Text is a sequence of one-character strings,   *)
(* so that lower(), strip(), split() and the similarity scorer are         *)
(* computed and not assumed.  A numeric cell is <<>> (NaN) or <<n>>.       *)
(***************************************************************************)
EXTENDS Integers, Sequences, FiniteSets, TLC

VARIABLES
    pc,               \* position of the script / last call made
    variant,          \* which module's functions run: "help", "app2", "explor"
    threshold,        \* score_cutoff handed to fuzzy_align_names
    selected_vendor,  \* vendor_name handed to get_vendor_discounts
    c1_raw, c2_raw,   \* frames as loaded from the CSV files
    c1, c2,           \* the script's working frames
    c1_c, c2_c,       \* copies taken before deduplication (app.py 48-49)
    vendors, items,   \* build_vendor_index / build_item_matches results
    vendors_c1, vendors_c2,  \* get_vendors_with_price_duplicates results
    df_result,        \* get_vendor_discounts result
    arg1, arg2,       \* the frames handed to the last call, as the callee left them
    percent_args,     \* <<n, denom>> handed to percent
    percent_result    \* what percent returned

vars == <<pc, variant, threshold, selected_vendor, c1_raw, c2_raw, c1, c2,
          c1_c, c2_c, vendors, items, vendors_c1, vendors_c2, df_result,
          arg1, arg2, percent_args, percent_result>>

-----------------------------------------------------------------------------
(* Bounds of the model *)

MaxRawRows == 2
MaxRows == 2
MaxDedupRows == 3
MaxJoinRows == 2
MaxVendorRows == 2
MaxDiscountRows == 2
MaxPipelineRows == 2
MaxCount == 8

-----------------------------------------------------------------------------
(* Text *)

\* The characters of the model in code-point order (tab 9, space 32, digits,
\* punctuation '.', upper case, lower case).
CodePoints == <<"\t", " ", ".", "0", "1", "2", "A", "B", "C", "a", "b", "c",
                "d", "e", "g", "i", "k", "l", "m", "n", "o", "r", "s", "x">>

Ord(ch) == CHOOSE i \in 1..Len(CodePoints) : CodePoints[i] = ch

Whitespace == {"\t", " "}
Punctuation == {"."}
Digits == {"0", "1", "2"}

\* str.lower() on one character
LowerChar(ch) ==
    CASE ch = "A" -> "a"
      [] ch = "B" -> "b"
      [] ch = "C" -> "c"
      [] OTHER -> ch

\* str.lower()
str_lower(s) == [i \in 1..Len(s) |-> LowerChar(s[i])]

RECURSIVE lstrip(_)
lstrip(s) == IF s # <<>> /\ Head(s) \in Whitespace THEN lstrip(Tail(s)) ELSE s

RECURSIVE rstrip(_)
rstrip(s) ==
    IF s # <<>> /\ s[Len(s)] \in Whitespace
    THEN rstrip(SubSeq(s, 1, Len(s) - 1))
    ELSE s

\* str.strip()
str_strip(s) == rstrip(lstrip(s))

\* str.replace(r"\s+", " ", regex=True): every maximal run of whitespace
\* becomes one space.
RECURSIVE collapse_ws(_)
collapse_ws(s) ==
    IF s = <<>> THEN <<>>
    ELSE IF Head(s) \in Whitespace
         THEN <<" ">> \o collapse_ws(lstrip(s))
         ELSE <<Head(s)>> \o collapse_ws(Tail(s))

\* The first whitespace-free word of s (s does not start with whitespace).
RECURSIVE first_word(_)
first_word(s) ==
    IF s = <<>> \/ Head(s) \in Whitespace THEN <<>>
    ELSE <<Head(s)>> \o first_word(Tail(s))

\* str.split(): the words of s, in order.
RECURSIVE str_split(_)
str_split(s) ==
    LET t == lstrip(s)
        w == first_word(t)
    IN  IF t = <<>> THEN <<>>
        ELSE <<w>> \o str_split(SubSeq(t, Len(w) + 1, Len(t)))

\* " ".join(words)
RECURSIVE str_join(_)
str_join(words) ==
    IF words = <<>> THEN <<>>
    ELSE IF Len(words) = 1 THEN words[1]
    ELSE words[1] \o <<" ">> \o str_join(Tail(words))

\* s.startswith(p)
startswith(s, p) == Len(p) <= Len(s) /\ SubSeq(s, 1, Len(p)) = p

\* str.replace(old, new) for a non-empty old: every non-overlapping
\* occurrence, left to right.
RECURSIVE str_replace(_, _, _)
str_replace(s, old, new) ==
    IF s = <<>> THEN <<>>
    ELSE IF startswith(s, old)
         THEN new \o str_replace(SubSeq(s, Len(old) + 1, Len(s)), old, new)
         ELSE <<Head(s)>> \o str_replace(Tail(s), old, new)

\* Lexicographic order of two texts by code point (Python's str <).
RECURSIVE str_lt(_, _)
str_lt(a, b) ==
    IF b = <<>> THEN FALSE
    ELSE IF a = <<>> THEN TRUE
    ELSE IF Head(a) = Head(b) THEN str_lt(Tail(a), Tail(b))
    ELSE Ord(Head(a)) < Ord(Head(b))

-----------------------------------------------------------------------------
(* normalize *)

\* NaN, and a number n, in a numeric column
NaN == << >>
Num(n) == <<n>>

DigitValue(ch) == CASE ch = "0" -> 0 [] ch = "1" -> 1 [] ch = "2" -> 2

\* The value of a run of decimal digits.
RECURSIVE DecimalValue(_)
DecimalValue(s) ==
    IF s = <<>> THEN 0
    ELSE 10 * DecimalValue(SubSeq(s, 1, Len(s) - 1)) + DigitValue(s[Len(s)])

IsDigits(s) == s # <<>> /\ \A i \in 1..Len(s) : s[i] \in Digits

\* A cell of an object column holding the text s (read_csv leaves a price
\* column that holds any non-number as text).
Str(s) == <<"str", s>>

\* Mutant: a text that spells no number becomes 0.
to_numeric_zero(cell) ==
    IF Len(cell) < 2 THEN cell
    ELSE IF IsDigits(cell[2]) THEN Num(DecimalValue(cell[2]))
    ELSE Num(0)

\* pd.to_numeric(cell, errors="coerce"): a number (or NaN) stays what it is,
\* a text that spells a number parses to it, any other text becomes NaN.
to_numeric(cell) ==
    IF Len(cell) < 2 THEN cell
    ELSE IF IsDigits(cell[2]) THEN Num(DecimalValue(cell[2]))
    ELSE NaN

\* cleantext.clean(text, lower=True, no_punct=True): punctuation removed,
\* lower case, whitespace runs collapsed, ends stripped.
cleantext_clean(text) ==
    LET nopunct == SelectSeq(text, LAMBDA ch : ch \notin Punctuation)
    IN  str_strip(collapse_ws(str_lower(nopunct)))

\* ureg.Quantity(word).to_base_units() rendered as f"{int(q.m)} {q.u}":
\* <<text>> when the word parses as a quantity, <<>> when pint raises.
\* A bare number is a dimensionless quantity; "kg" is one kilogram, a number
\* followed by "kg" that many; "g" is 0.001 kilogram, whose int() is 0.
KILOGRAM == <<"k", "i", "l", "o", "g", "r", "a", "m">>
DIMENSIONLESS == <<"d", "i", "m", "e", "n", "s", "i", "o", "n", "l", "e", "s", "s">>
ureg_Quantity(word) ==
    LET n == Len(word)
    IN  IF IsDigits(word) THEN <<word \o <<" ">> \o DIMENSIONLESS>>
        ELSE IF word = <<"k", "g">> THEN <<(<<"1", " ">> \o KILOGRAM)>>
        ELSE IF word = <<"g">> THEN <<(<<"0", " ">> \o KILOGRAM)>>
        ELSE IF n > 2 /\ SubSeq(word, n - 1, n) = <<"k", "g">>
                /\ IsDigits(SubSeq(word, 1, n - 2))
             THEN <<(SubSeq(word, 1, n - 2) \o <<" ">> \o KILOGRAM)>>
        ELSE <<>>

\* help.py canonicalize: the first word that parses as a quantity is
\* replaced, wherever it occurs in the cleaned text, by its base-unit form.
RECURSIVE canonicalize_words(_, _)
canonicalize_words(cleaned, words) ==
    IF words = <<>> THEN cleaned
    ELSE LET q == ureg_Quantity(Head(words))
         IN  IF q # <<>> THEN str_replace(cleaned, Head(words), q[1])
             ELSE canonicalize_words(cleaned, Tail(words))

canonicalize(prod) ==
    LET cleaned == cleantext_clean(prod)
    IN  canonicalize_words(cleaned, str_split(cleaned))

\* Mutant: the canonical product name is written over the display column.
normalize_help_row_overwrites(r) ==
    [VendorID |-> r.VendorID, vendorName |-> r.vendorName,
     productID |-> r.productID, productName |-> canonicalize(r.productName),
     productPrice |-> to_numeric(r.productPrice),
     vendorName_clean |-> str_strip(str_lower(r.vendorName)),
     productName_clean |-> canonicalize(r.productName)]

\* help.py normalize, one row
normalize_help_row(r) ==
    [VendorID |-> r.VendorID, vendorName |-> r.vendorName,
     productID |-> r.productID, productName |-> r.productName,
     productPrice |-> to_numeric(r.productPrice),
     vendorName_clean |-> str_strip(str_lower(r.vendorName)),
     productName_clean |-> canonicalize(r.productName)]

\* app2.py normalize, one row: only the vendor name gets a clean column.
normalize_app2_row(r) ==
    [VendorID |-> r.VendorID, vendorName |-> r.vendorName,
     productID |-> r.productID, productName |-> r.productName,
     productPrice |-> to_numeric(r.productPrice),
     vendorName_clean |-> collapse_ws(str_lower(str_strip(r.vendorName)))]

\* explor.py normalize, one row: the display names are stripped in place,
\* the clean columns are computed from the stripped names.
normalize_explor_row(r) ==
    LET v == str_strip(r.vendorName)
        p == str_strip(r.productName)
    IN  [VendorID |-> r.VendorID, vendorName |-> v,
         productID |-> r.productID, productName |-> p,
         productPrice |-> to_numeric(r.productPrice),
         vendorName_clean |-> collapse_ws(str_lower(v)),
         productName_clean |-> collapse_ws(str_lower(p))]

\* normalize(df) of the module `m`: one output row per input row.
normalize(m, df) ==
    [i \in 1..Len(df) |->
        CASE m = "help"   -> normalize_help_row(df[i])
          [] m = "app2"   -> normalize_app2_row(df[i])
          [] m = "explor" -> normalize_explor_row(df[i])]

\* The column holding the product join key: help.py and explor.py join on
\* productName_clean, app2.py on the raw productName.
ProductKeyCol(m) == IF m = "app2" THEN "productName" ELSE "productName_clean"

-----------------------------------------------------------------------------
(* rapidfuzz: fuzz.token_set_ratio and process.extractOne *)

Max(a, b) == IF a >= b THEN a ELSE b

\* Length of a longest common subsequence of two texts.
RECURSIVE lcs_len(_, _)
lcs_len(a, b) ==
    IF a = <<>> \/ b = <<>> THEN 0
    ELSE IF Head(a) = Head(b) THEN 1 + lcs_len(Tail(a), Tail(b))
    ELSE Max(lcs_len(Tail(a), b), lcs_len(a, Tail(b)))

\* Indel distance: insertions and deletions turning a into b.
indel_distance(a, b) == Len(a) + Len(b) - 2 * lcs_len(a, b)

\* A score is the fraction <<n, d>> (d > 0) of the 0..100 scale, so that no
\* rounding enters a comparison.
Score(n, d) == <<n, d>>
ScoreGE(s, t) == s[1] * t[2] >= t[1] * s[2]
\* Mutant: an equal score also counts as higher.
ScoreGT_or_equal(s, t) == s[1] * t[2] >= t[1] * s[2]

ScoreGT(s, t) == s[1] * t[2] > t[1] * s[2]

ScoreEQ(s, t) == s[1] * t[2] = t[1] * s[2]
ScoreMax(s, t) == IF ScoreGE(s, t) THEN s ELSE t
ZERO == Score(0, 1)
HUNDRED == Score(100, 1)

\* _norm_distance: 100 - 100 * dist / lensum, or 0 below the cutoff.
norm_distance(dist, lensum, score_cutoff) ==
    LET score == IF lensum = 0 THEN HUNDRED
                 ELSE Score(100 * (lensum - dist), lensum)
    IN  IF ScoreGE(score, score_cutoff) THEN score ELSE ZERO

\* sorted(tokens): the texts of a set in ascending order.
RECURSIVE sorted(_)
sorted(tokens) ==
    IF tokens = {} THEN <<>>
    ELSE LET least == CHOOSE t \in tokens :
                          \A u \in tokens \ {t} : str_lt(t, u)
         IN  <<least>> \o sorted(tokens \ {least})

SetOfSeq(q) == {q[i] : i \in 1..Len(q)}

\* fuzz.token_set_ratio(s1, s2, score_cutoff)
token_set_ratio(s1, s2, score_cutoff) ==
    LET tokens_a == SetOfSeq(str_split(s1))
        tokens_b == SetOfSeq(str_split(s2))
        intersect == tokens_a \cap tokens_b
        diff_ab == tokens_a \ tokens_b
        diff_ba == tokens_b \ tokens_a
        diff_ab_joined == str_join(sorted(diff_ab))
        diff_ba_joined == str_join(sorted(diff_ba))
        ab_len == Len(diff_ab_joined)
        ba_len == Len(diff_ba_joined)
        sect_len == Len(str_join(sorted(intersect)))
        sep == IF sect_len # 0 THEN 1 ELSE 0
        sect_ab_len == sect_len + sep + ab_len
        sect_ba_len == sect_len + sep + ba_len
        dist == indel_distance(diff_ab_joined, diff_ba_joined)
        result == norm_distance(dist, sect_ab_len + sect_ba_len, score_cutoff)
        sect_ab_ratio == norm_distance(sep + ab_len, sect_len + sect_ab_len,
                                       score_cutoff)
        sect_ba_ratio == norm_distance(sep + ba_len, sect_len + sect_ba_len,
                                       score_cutoff)
    IN  IF tokens_a = {} \/ tokens_b = {} THEN ZERO
        ELSE IF intersect # {} /\ (diff_ab = {} \/ diff_ba = {}) THEN HUNDRED
        ELSE IF sect_len = 0 THEN result
        ELSE ScoreMax(result, ScoreMax(sect_ab_ratio, sect_ba_ratio))

\* The keys and cutoffs of the alignment specification, and the scorer
\* tabulated over them: each score is computed once and looked up after.
AB == <<"a", "b">>
ABC == <<"a", "b", "c">>
ABD == <<"a", "b", "d">>
AB_C == <<"a", "b", " ", "c">>
\* score_cutoff values: app.py passes 80; 81 is one point above a score of 80.
Thresholds == {80, 81}
TabulatedKeys == {AB, ABC, ABD, AB_C}
TabulatedCutoffs ==
    {ZERO} \cup {Score(t, 1) : t \in Thresholds}
        \cup {token_set_ratio(a, b, ZERO) : a, b \in TabulatedKeys}
RatioTable ==
    [a \in TabulatedKeys, b \in TabulatedKeys, k \in TabulatedCutoffs |->
        token_set_ratio(a, b, k)]

\* The scorer as extractOne calls it.
scorer(s1, s2, score_cutoff) ==
    IF <<s1, s2, score_cutoff>> \in DOMAIN RatioTable
    THEN RatioTable[s1, s2, score_cutoff]
    ELSE token_set_ratio(s1, s2, score_cutoff)

\* process.extractOne(query, choices, scorer=fuzz.token_set_ratio,
\* score_cutoff=...): the loop over the choices from position i on, with the
\* best result so far (<<>> for None, else <<choice, score>>) and the current
\* cutoff.  A later choice replaces the result only with a strictly higher
\* score; a score of 100 ends the loop.
RECURSIVE extractOne_loop(_, _, _, _, _)
\* One choice scored: it becomes the result when its score reaches the cutoff
\* and beats the result so far; the loop goes on unless the score is 100.
extractOne_scored(query, choices, i, result, score_cutoff, score) ==
    IF ScoreGE(score, score_cutoff) /\ (result = <<>> \/ ScoreGT(score, result[2]))
    THEN IF ScoreEQ(score, HUNDRED) THEN <<choices[i], score>>
         ELSE extractOne_loop(query, choices, i + 1, <<choices[i], score>>, score)
    ELSE IF ScoreEQ(score, HUNDRED) THEN result
         ELSE extractOne_loop(query, choices, i + 1, result, score_cutoff)

extractOne_loop(query, choices, i, result, score_cutoff) ==
    IF i > Len(choices) THEN result
    ELSE extractOne_scored(query, choices, i, result, score_cutoff,
                           scorer(query, choices[i], score_cutoff))

\* Mutant: the cutoff is exclusive (a score equal to it is not a match).
extractOne_exclusive(query, choices, score_cutoff) ==
    extractOne_loop(query, choices, 1, <<>>, Score(score_cutoff + 1, 1))

extractOne(query, choices, score_cutoff) ==
    extractOne_loop(query, choices, 1, <<>>, Score(score_cutoff, 1))


-----------------------------------------------------------------------------
(* fuzzy_align_names *)

\* df[column].tolist()
column_list(df, column) == [i \in 1..Len(df) |-> df[i][column]]

\* Series.unique(): the values in order of first appearance.
RECURSIVE unique(_)
unique(q) ==
    IF q = <<>> THEN <<>>
    ELSE LET front == unique(SubSeq(q, 1, Len(q) - 1))
             last == q[Len(q)]
         IN  IF last \in SetOfSeq(front) THEN front ELSE Append(front, last)

\* The columns fuzzy_align_names rewrites (app2.py: the product part is
\* commented out), and the choices it draws from the target.
aligned_columns(m) ==
    IF m = "help" THEN {"vendorName_clean", "productName_clean"}
    ELSE {"vendorName_clean"}

align_choices(m, c2f, column) ==
    IF m = "help" THEN unique(column_list(c2f, column))
    ELSE column_list(c2f, column)

\* Mutant: no value is ever replaced.
align_value_keep(value, choices, cutoff) == value

\* One value aligned: the match when extractOne finds one, else the value.
align_value(value, choices, cutoff) ==
    LET match == extractOne(value, choices, cutoff)
    IN  IF match # <<>> THEN match[1] ELSE value

\* fuzzy_align_names(c1, c2, threshold): the returned frame `out`.
fuzzy_align_names(m, c1f, c2f, cutoff) ==
    LET choices == [col \in aligned_columns(m) |-> align_choices(m, c2f, col)]
    IN  [i \in 1..Len(c1f) |->
            [col \in DOMAIN c1f[i] |->
                IF col \in aligned_columns(m)
                THEN align_value(c1f[i][col], choices[col], cutoff)
                ELSE c1f[i][col]]]

\* Mutant: no copy is taken, the caller's c1 is rewritten in place.
fuzzy_align_call_inplace(m, c1f, c2f, cutoff) ==
    [c1 |-> fuzzy_align_names(m, c1f, c2f, cutoff), c2 |-> c2f,
     out |-> fuzzy_align_names(m, c1f, c2f, cutoff)]

\* What the call leaves behind: the caller's two frames and the result.
\* `out = c1.copy()`: the rewriting is done on a copy, c2 is only read.
fuzzy_align_call(m, c1f, c2f, cutoff) ==
    [c1 |-> c1f, c2 |-> c2f, out |-> fuzzy_align_names(m, c1f, c2f, cutoff)]


-----------------------------------------------------------------------------
(* pandas: sort_values, drop_duplicates *)

\* Mutant: NaN takes part in the ordering as the largest value (it comes
\* first in a descending sort instead of last).
price_before_nan_largest(a, b, ascending) ==
    IF a = NaN /\ b = NaN THEN FALSE
    ELSE IF a = NaN THEN ~ascending
    ELSE IF b = NaN THEN ascending
    ELSE IF ascending THEN a[1] < b[1] ELSE a[1] > b[1]

\* Whether price cell a sorts strictly before b: NaN always sorts last
\* (na_position="last"), numbers by value in the given direction.
price_before(a, b, ascending) ==
    IF a = NaN THEN FALSE
    ELSE IF b = NaN THEN TRUE
    ELSE IF ascending THEN a[1] < b[1] ELSE a[1] > b[1]

\* Whether row a sorts strictly before row b under
\* sort_values([vendor key, product key, "productPrice"],
\*             ascending=[True, True, ascending]).
row_before(a, b, pcol, ascending) ==
    IF a.vendorName_clean # b.vendorName_clean
    THEN str_lt(a.vendorName_clean, b.vendorName_clean)
    ELSE IF a[pcol] # b[pcol] THEN str_lt(a[pcol], b[pcol])
    ELSE price_before(a.productPrice, b.productPrice, ascending)

\* Row r put into the sorted frame q after every row that does not sort
\* after it (the sort is stable).
RECURSIVE sorted_insert(_, _, _, _)
sorted_insert(q, r, pcol, ascending) ==
    IF q = <<>> THEN <<r>>
    ELSE IF row_before(r, Head(q), pcol, ascending) THEN <<r>> \o q
    ELSE <<Head(q)>> \o sorted_insert(Tail(q), r, pcol, ascending)

\* df.sort_values([...]) on the two keys and the price
RECURSIVE sort_values(_, _, _)
sort_values(df, pcol, ascending) ==
    IF df = <<>> THEN <<>>
    ELSE sorted_insert(sort_values(SubSeq(df, 1, Len(df) - 1), pcol, ascending),
                       df[Len(df)], pcol, ascending)

\* The cells of row r in the columns cols (a set of column names)
key_of(r, cols) == [col \in cols |-> r[col]]

\* df.drop_duplicates(cols, keep="first")
RECURSIVE drop_duplicates(_, _)
drop_duplicates(df, cols) ==
    IF df = <<>> THEN <<>>
    ELSE IF \E i \in 1..(Len(df) - 1) : key_of(df[i], cols) = key_of(df[Len(df)], cols)
         THEN drop_duplicates(SubSeq(df, 1, Len(df) - 1), cols)
         ELSE Append(drop_duplicates(SubSeq(df, 1, Len(df) - 1), cols), df[Len(df)])

-----------------------------------------------------------------------------
(* deduplicate_max_price (help.py), deduplicate_min_price (app2.py) *)

\* help.py: highest price first within each (vendor, product), first kept.
deduplicate_max_price(df) ==
    drop_duplicates(sort_values(df, "productName_clean", FALSE),
                    {"vendorName_clean", "productName_clean"})

\* app2.py: lowest price first within each (vendor, productName), first kept.
deduplicate_min_price(df) ==
    drop_duplicates(sort_values(df, "productName", TRUE),
                    {"vendorName_clean", "productName"})

\* The deduplication the module m has.
deduplicate(m, df) ==
    IF m = "help" THEN deduplicate_max_price(df) ELSE deduplicate_min_price(df)


-----------------------------------------------------------------------------
(* pandas: merge(how="outer", indicator=True) *)

\* The cells of row r in the key columns cols (a sequence of column names)
key_tuple(r, cols) == [n \in 1..Len(cols) |-> r[cols[n]]]

\* Lexicographic order of two key tuples of equal length
RECURSIVE tuple_lt(_, _)
tuple_lt(a, b) ==
    IF a = <<>> THEN FALSE
    ELSE IF Head(a) = Head(b) THEN tuple_lt(Tail(a), Tail(b))
    ELSE str_lt(Head(a), Head(b))

\* The key tuples of a set in ascending order (an outer merge sorts the
\* union of the keys).
RECURSIVE sorted_keys(_)
sorted_keys(ks) ==
    IF ks = {} THEN <<>>
    ELSE LET least == CHOOSE k \in ks : \A o \in ks \ {k} : tuple_lt(k, o)
         IN  <<least>> \o sorted_keys(ks \ {least})

frame_keys(df, cols) == {key_tuple(df[i], cols) : i \in 1..Len(df)}

rows_with_key(df, cols, k) == SelectSeq(df, LAMBDA r : key_tuple(r, cols) = k)

\* The joined pairs of one key: <<left row or none, right row or none,
\* _merge>>, every left row of the key with every right row of the key.
merge_block(L, R) ==
    IF R = <<>> THEN [i \in 1..Len(L) |-> <<(<<L[i]>>), <<>>, "left_only">>]
    ELSE IF L = <<>> THEN [j \in 1..Len(R) |-> <<(<<>>), <<R[j]>>, "right_only">>]
    ELSE [n \in 1..(Len(L) * Len(R)) |->
            <<(<<L[((n - 1) \div Len(R)) + 1]>>), <<R[((n - 1) % Len(R)) + 1]>>, "both">>]

RECURSIVE merge_blocks(_, _, _, _)
merge_blocks(left, right, cols, ks) ==
    IF ks = <<>> THEN <<>>
    ELSE merge_block(rows_with_key(left, cols, Head(ks)),
                     rows_with_key(right, cols, Head(ks)))
            \o merge_blocks(left, right, cols, Tail(ks))

\* Mutant: how="left" (keys of the right frame alone are dropped).
merge_left(left, right, cols) ==
    merge_blocks(left, right, cols, sorted_keys(frame_keys(left, cols)))

\* left.merge(right, on=cols, how="outer", indicator=True), as the sequence
\* of joined pairs.
merge_outer(left, right, cols) ==
    merge_blocks(left, right, cols,
                 sorted_keys(frame_keys(left, cols) \cup frame_keys(right, cols)))

\* A cell of one side of a joined pair: NaN when that side has no row.
side_cell(side, col) == IF side = <<>> THEN NaN ELSE side[1][col]

\* A key cell of a joined pair, taken from whichever side has the row.
key_cell(pair, col) == IF pair[1] # <<>> THEN pair[1][1][col] ELSE pair[2][1][col]

status_map(merge_indicator) ==
    CASE merge_indicator = "both" -> "Matched"
      [] merge_indicator = "left_only" -> "Only in Company1"
      [] merge_indicator = "right_only" -> "Only in Company2"

-----------------------------------------------------------------------------
(* build_item_matches *)

\* NaN in an object column of text labels
NaN_label == "NaN"

\* Float comparisons: every comparison with NaN is False.
num_gt(a, b) == a # NaN /\ b # NaN /\ a[1] > b[1]
num_lt(a, b) == a # NaN /\ b # NaN /\ a[1] < b[1]
num_eq(a, b) == a # NaN /\ b # NaN /\ a[1] = b[1]

\* Mutant: the prices are compared after fillna(0).
price_relation_fillna(match_status, price_c1, price_c2) ==
    LET p1 == IF price_c1 = NaN THEN 0 ELSE price_c1[1]
        p2 == IF price_c2 = NaN THEN 0 ELSE price_c2[1]
    IN  IF match_status # "Matched" THEN NaN_label
        ELSE IF p1 > p2 THEN "Company1 Higher"
        ELSE IF p1 < p2 THEN "Company1 Lower"
        ELSE "Same"

\* rel, filled by the three masked assignments in the order of the code.
price_relation(match_status, price_c1, price_c2) ==
    LET matched == match_status = "Matched"
        rel0 == NaN_label
        rel1 == IF matched /\ num_gt(price_c1, price_c2) THEN "Company1 Higher" ELSE rel0
        rel2 == IF matched /\ num_lt(price_c1, price_c2) THEN "Company1 Lower" ELSE rel1
        rel3 == IF matched /\ num_eq(price_c1, price_c2) THEN "Same" ELSE rel2
    IN  rel3

\* The join keys of build_item_matches in module m
item_keys(m) ==
    IF m = "app2" THEN <<"vendorName_clean", "productName">>
    ELSE <<"vendorName_clean", "productName_clean">>

\* One row of items.  app2.py joins on a copy of productName and drops it,
\* so its rows have no product key column of their own.
item_row(m, pair) ==
    LET status == status_map(pair[3])
        base == [VendorID_c1 |-> side_cell(pair[1], "VendorID"),
                 vendorName_c1 |-> side_cell(pair[1], "vendorName"),
                 productID_c1 |-> side_cell(pair[1], "productID"),
                 productName_c1 |-> side_cell(pair[1], "productName"),
                 productPrice_c1 |-> side_cell(pair[1], "productPrice"),
                 VendorID_c2 |-> side_cell(pair[2], "VendorID"),
                 vendorName_c2 |-> side_cell(pair[2], "vendorName"),
                 productID_c2 |-> side_cell(pair[2], "productID"),
                 productName_c2 |-> side_cell(pair[2], "productName"),
                 productPrice_c2 |-> side_cell(pair[2], "productPrice"),
                 vendorName_clean |-> key_cell(pair, "vendorName_clean"),
                 _merge |-> pair[3],
                 match_status |-> status,
                 price_relation_vs_c2 |->
                     price_relation(status, side_cell(pair[1], "productPrice"),
                                    side_cell(pair[2], "productPrice"))]
    IN  IF m = "app2" THEN base
        ELSE [col \in DOMAIN base \cup {"productName_clean"} |->
                 IF col = "productName_clean" THEN key_cell(pair, "productName_clean")
                 ELSE base[col]]

build_item_matches(m, c1f, c2f) ==
    LET pairs == merge_outer(c1f, c2f, item_keys(m))
    IN  [n \in 1..Len(pairs) |-> item_row(m, pairs[n])]


-----------------------------------------------------------------------------
(* build_vendor_index *)

\* df[cols]: the frame restricted to the columns cols
project(df, cols) == [i \in 1..Len(df) |-> key_of(df[i], cols)]

\* help.py: the vendor columns are deduplicated on (vendorName,
\* vendorName_clean), so a key keeps one row per display name.
vendor_side_help(df) ==
    drop_duplicates(project(df, {"vendorName", "vendorName_clean"}),
                    {"vendorName", "vendorName_clean"})

\* app2.py: the vendor columns are deduplicated on vendorName_clean.
vendor_side_app2(df) ==
    drop_duplicates(project(df, {"VendorID", "vendorName", "vendorName_clean"}),
                    {"vendorName_clean"})

vendor_row_help(pair) ==
    [vendorName_c1 |-> side_cell(pair[1], "vendorName"),
     vendorName_clean |-> key_cell(pair, "vendorName_clean"),
     vendorName_c2 |-> side_cell(pair[2], "vendorName"),
     _merge |-> pair[3],
     match_status |-> status_map(pair[3])]

\* app2.py drops the _merge column.
vendor_row_app2(pair) ==
    [VendorID_c1 |-> side_cell(pair[1], "VendorID"),
     vendorName_c1 |-> side_cell(pair[1], "vendorName"),
     vendorName_clean |-> key_cell(pair, "vendorName_clean"),
     VendorID_c2 |-> side_cell(pair[2], "VendorID"),
     vendorName_c2 |-> side_cell(pair[2], "vendorName"),
     match_status |-> status_map(pair[3])]

build_vendor_index(m, c1f, c2f) ==
    IF m = "app2"
    THEN LET pairs == merge_outer(vendor_side_app2(c1f), vendor_side_app2(c2f),
                                  <<"vendorName_clean">>)
         IN  [n \in 1..Len(pairs) |-> vendor_row_app2(pairs[n])]
    ELSE LET pairs == merge_outer(vendor_side_help(c1f), vendor_side_help(c2f),
                                  <<"vendorName_clean">>)
         IN  [n \in 1..Len(pairs) |-> vendor_row_help(pairs[n])]


-----------------------------------------------------------------------------
(* get_vendors_with_price_duplicates, get_vendor_discounts (help.py) *)

\* df["productPrice"] as a list of cells
price_cells(df) == [i \in 1..Len(df) |-> df[i].productPrice]

\* Mutant: nunique(dropna=False), NaN counted as a value.
nunique_with_nan(cells) == Cardinality(SetOfSeq(cells))

\* Series.nunique(): the number of distinct non-NaN values
nunique(cells) == Cardinality(SetOfSeq(cells) \ {NaN})

\* The min / max aggregation of a group: NaN cells are skipped, a group of
\* NaN cells alone gives NaN.
agg_min(cells) ==
    LET values == SetOfSeq(cells) \ {NaN}
    IN  IF values = {} THEN NaN
        ELSE CHOOSE v \in values : \A w \in values : v[1] <= w[1]
agg_max(cells) ==
    LET values == SetOfSeq(cells) \ {NaN}
    IN  IF values = {} THEN NaN
        ELSE CHOOSE v \in values : \A w \in values : v[1] >= w[1]

get_vendors_with_price_duplicates(df) ==
    LET cols == <<"vendorName_clean", "productName_clean">>
        groups == sorted_keys(frame_keys(df, cols))
        dup == SelectSeq(groups,
                  LAMBDA k : nunique(price_cells(rows_with_key(df, cols, k))) > 1)
    IN  unique([n \in 1..Len(dup) |-> dup[n][1]])

\* Mutant: only the list of Company1.
all_problem_vendors_c1(list_c1, list_c2) == sorted(SetOfSeq(list_c1))

\* sorted(set(vendors_c1 + vendors_c2))
all_problem_vendors(list_c1, list_c2) == sorted(SetOfSeq(list_c1 \o list_c2))

\* Mutant: the quotient is truncated.
round_down(n, d) == n \div d

\* round(n / d) to the nearest integer, ties to the even one (n >= 0, d > 0)
round_half_even(n, d) ==
    LET q == n \div d
        r == n % d
    IN  IF 2 * r < d THEN q
        ELSE IF 2 * r > d THEN q + 1
        ELSE IF q % 2 = 0 THEN q ELSE q + 1

digit_char(n) == <<"0", "1", "2", "3", "4", "5", "6", "7", "8", "9">>[n + 1]

\* str(n) of a natural number
RECURSIVE int_str(_)
int_str(n) == IF n < 10 THEN <<digit_char(n)>>
              ELSE int_str(n \div 10) \o <<digit_char(n % 10)>>

\* str(x) of the float x = hundredths / 100: at least one decimal, no
\* trailing zero after it ("20.0", "12.5", "44.44").
float_str(hundredths) ==
    int_str(hundredths \div 100) \o <<".">> \o
        (IF hundredths % 10 = 0 THEN <<digit_char((hundredths % 100) \div 10)>>
         ELSE <<digit_char((hundredths % 100) \div 10), digit_char(hundredths % 10)>>)

\* ((original - discounted) / original * 100).round(2).astype(str) + "%"
discount_percent(original, discounted) ==
    IF original = 0 THEN <<"i", "n", "f", "%">>
    ELSE float_str(round_half_even((original - discounted) * 10000, original))
            \o <<"%">>

\* One row of process(df, label), the label left off the column names.
process_row(vendor_df, k) ==
    LET cells == price_cells(rows_with_key(vendor_df, <<"productName_clean">>, k))
    IN  [productName_clean |-> k[1],
         discounted_price |-> agg_min(cells),
         original_price |-> agg_max(cells),
         discount_percent |-> discount_percent(agg_max(cells)[1], agg_min(cells)[1])]

\* Mutant: the rows are not filtered by vendor.
process_any_vendor(df, vendor_name) ==
    LET cols == <<"productName_clean">>
        groups == sorted_keys(frame_keys(df, cols))
        grouped == SelectSeq(groups,
                      LAMBDA k : nunique(price_cells(rows_with_key(df, cols, k))) > 1)
    IN  [n \in 1..Len(grouped) |-> process_row(df, grouped[n])]

process(df, vendor_name) ==
    LET vendor_df == SelectSeq(df, LAMBDA r : r.vendorName_clean = vendor_name)
        cols == <<"productName_clean">>
        groups == sorted_keys(frame_keys(vendor_df, cols))
        grouped == SelectSeq(groups,
                      LAMBDA k : nunique(price_cells(rows_with_key(vendor_df, cols, k))) > 1)
    IN  [n \in 1..Len(grouped) |-> process_row(vendor_df, grouped[n])]

discount_row(pair) ==
    [productName_clean |-> key_cell(pair, "productName_clean"),
     discounted_price_c1 |-> side_cell(pair[1], "discounted_price"),
     original_price_c1 |-> side_cell(pair[1], "original_price"),
     discount_percent_c1 |-> side_cell(pair[1], "discount_percent"),
     discounted_price_c2 |-> side_cell(pair[2], "discounted_price"),
     original_price_c2 |-> side_cell(pair[2], "original_price"),
     discount_percent_c2 |-> side_cell(pair[2], "discount_percent")]

get_vendor_discounts(vendor_name, c1f, c2f) ==
    LET merged == merge_outer(process(c1f, vendor_name), process(c2f, vendor_name),
                              <<"productName_clean">>)
    IN  [n \in 1..Len(merged) |-> discount_row(merged[n])]


-----------------------------------------------------------------------------
(* percent *)

\* A returned number as <<numerator, denominator>>: help.py returns an int,
\* app2.py a float of 2 decimals.
\* help.py: 0 if denom == 0, else int(round(100 * n / denom))
percent_help(n, denom) ==
    IF denom = 0 THEN <<0, 1>>
    ELSE <<round_half_even(100 * n, denom), 1>>

\* app2.py: 0.0 if d == 0 else round(100.0 * n / d, 2)
percent_app2(n, d) ==
    IF d = 0 THEN <<0, 100>>
    ELSE <<round_half_even(10000 * n, d), 100>>

percent(m, n, denom) ==
    IF m = "app2" THEN percent_app2(n, denom) ELSE percent_help(n, denom)


-----------------------------------------------------------------------------
(* Inputs of the normalize specification *)

\* Display names as they come in the CSV: "Ab c" in several spellings.
RawVendorNames ==
    { <<"A", "b", " ", "c">>,
      <<"a", "b", " ", "c">>,
      <<" ", "a", "b", " ", "c", "\t">>,
      <<"a", "b", " ", " ", "c">>,
      <<"A", "B", "\t", "C">>,
      <<"a", "b", "c">> }

RawProductNames ==
    { <<"A", " ", "2">>,
      <<" ", "a", ".", " ", " ", "2">>,
      <<"B", "c">> }

RawPrices == { Str(<<"1", "2">>), Str(<<"x">>) }

RawRows ==
    [VendorID : {<<"v">>}, vendorName : RawVendorNames, productID : {<<"p">>},
     productName : RawProductNames, productPrice : RawPrices]

Frames(rows, n) == UNION { [1..k -> rows] : k \in 0..n }

Modules == {"help", "app2", "explor"}

Empty == << >>

InitNormalize ==
    /\ pc = "loaded"
    /\ variant \in Modules
    /\ c1_raw \in Frames(RawRows, MaxRawRows)
    /\ c2_raw = Empty
    /\ c1 = Empty /\ c2 = Empty /\ c1_c = Empty /\ c2_c = Empty
    /\ arg1 = Empty /\ arg2 = Empty
    /\ vendors = Empty /\ items = Empty
    /\ vendors_c1 = Empty /\ vendors_c2 = Empty /\ df_result = Empty
    /\ percent_args = Empty /\ percent_result = Empty
    /\ threshold = 0 /\ selected_vendor = Empty

\* c1 = normalize(c1_raw)
CallNormalize ==
    /\ pc = "loaded"
    /\ c1' = normalize(variant, c1_raw)
    /\ arg1' = c1_raw
    /\ pc' = "normalized"
    /\ UNCHANGED <<percent_args, percent_result>>
    /\ UNCHANGED <<variant, threshold, selected_vendor, c1_raw, c2_raw, c2,
                   c1_c, c2_c, vendors, items, vendors_c1, vendors_c2,
                   df_result, arg2>>

\* normalize applied to a frame normalize returned
CallNormalizeAgain ==
    /\ pc = "normalized"
    /\ c1' = normalize(variant, c1)
    /\ arg1' = c1
    /\ pc' = "renormalized"
    /\ UNCHANGED <<percent_args, percent_result>>
    /\ UNCHANGED <<variant, threshold, selected_vendor, c1_raw, c2_raw, c2,
                   c1_c, c2_c, vendors, items, vendors_c1, vendors_c2,
                   df_result, arg2>>

NextNormalize == CallNormalize \/ CallNormalizeAgain

SpecNormalize == InitNormalize /\ [][NextNormalize]_vars

\* C9: normalize returns one record per input row, and each record's
\* vendorName_clean is the display vendorName lower-cased, trimmed and with
\* every run of whitespace collapsed to one space.
VendorKeyOf(name) == str_lower(str_strip(collapse_ws(name)))
C9_VendorKeyCollapsed ==
    pc = "normalized" =>
        /\ Len(c1) = Len(c1_raw)
        /\ \A i \in 1..Len(c1) :
              c1[i].vendorName_clean = VendorKeyOf(c1_raw[i].vendorName)

\* C10: normalize applied to the output of normalize gives every row the
\* vendor key and the product key the first application gave it.
C10_NormalizeIdempotent ==
    pc = "renormalized" =>
        /\ Len(c1) = Len(arg1)
        /\ \A i \in 1..Len(c1) :
              /\ c1[i].vendorName_clean = arg1[i].vendorName_clean
              /\ c1[i][ProductKeyCol(variant)] = arg1[i][ProductKeyCol(variant)]

\* A frame whose keys differ from the display names (the first application
\* changed something, a unit word was rewritten) has been normalized twice.
C10_Witness ==
    /\ pc = "renormalized"
    /\ variant = "help"
    /\ \E i \in 1..Len(c1) :
          /\ c1[i].vendorName_clean # c1[i].vendorName
          /\ c1[i].productName_clean # cleantext_clean(c1[i].productName)


-----------------------------------------------------------------------------
(* The alignment specification: fuzzy_align_names on normalized frames *)

\* Vendor keys: "ab" scores 80 against "abc" and against "abd" (a tie), "abc"
\* scores 66.7 against "abd".  Product keys: "ab" and "ab c" score 100 against
\* each other (one's words are among the other's).
AlignVendorKeys == {AB, ABC, ABD}
AlignProductKeys == {AB, AB_C}

RowIds == << <<"1">>, <<"2">>, <<"3">>, <<"4">>, <<"5">> >>

\* A normalized row of module m with the given keys; the ids tell the rows
\* of a frame apart.
KeyedRow(m, id, vname, vkey, pkey, price) ==
    IF m = "app2"
    THEN [VendorID |-> <<"v">>, vendorName |-> vname, productID |-> id,
          productName |-> pkey, productPrice |-> price,
          vendorName_clean |-> vkey]
    ELSE [VendorID |-> <<"v">>, vendorName |-> vname, productID |-> id,
          productName |-> pkey, productPrice |-> price,
          vendorName_clean |-> vkey, productName_clean |-> pkey]

\* The frames of module m of at most n rows whose keys come from vkeys and
\* pkeys, display names from vnames and prices from prices.
KeyedFrames(m, n, vnames, vkeys, pkeys, prices) ==
    UNION { { [i \in 1..k |-> KeyedRow(m, RowIds[i], f[i][1], f[i][2], f[i][3], f[i][4])] :
                f \in [1..k -> vnames \X vkeys \X pkeys \X prices] } : k \in 0..n }

AlignFrames(m) ==
    KeyedFrames(m, MaxRows, {<<"N">>}, AlignVendorKeys, AlignProductKeys, {Num(1)})

InitAlign ==
    /\ pc = "ready"
    /\ variant \in {"help", "app2"}
    /\ threshold \in Thresholds
    /\ c1 \in AlignFrames(variant)
    /\ c2 \in AlignFrames(variant)
    /\ c1_raw = Empty /\ c2_raw = Empty /\ c1_c = Empty /\ c2_c = Empty
    /\ arg1 = Empty /\ arg2 = Empty
    /\ vendors = Empty /\ items = Empty
    /\ vendors_c1 = Empty /\ vendors_c2 = Empty /\ df_result = Empty
    /\ percent_args = Empty /\ percent_result = Empty
    /\ selected_vendor = Empty

\* c1 = fuzzy_align_names(c1, c2, threshold)
CallFuzzyAlign ==
    /\ pc = "ready"
    /\ LET call == fuzzy_align_call(variant, c1, c2, threshold)
       IN  /\ c1' = call.out
           /\ c2' = call.c2
           /\ arg1' = call.c1
           /\ arg2' = call.c2
    /\ pc' = "aligned"
    /\ UNCHANGED <<percent_args, percent_result>>
    /\ UNCHANGED <<variant, threshold, selected_vendor, c1_raw, c2_raw,
                   c1_c, c2_c, vendors, items, vendors_c1, vendors_c2,
                   df_result>>

NextAlign == CallFuzzyAlign

SpecAlign == InitAlign /\ [][NextAlign]_vars


\* The score of a source key against a target value, no cutoff applied.
RawScore(v, choice) == scorer(v, choice, ZERO)

\* The values of the target column that score highest against v.
BestChoices(v, choices) ==
    {ch \in choices : \A o \in choices : ScoreGE(RawScore(v, ch), RawScore(v, o))}

\* The source key `before` was rewritten to `after` as the claim says: to a
\* highest-scoring target value when that score reaches the threshold, and
\* left alone otherwise.
AlignedAsClaimed(before, after, choices, t) ==
    IF \E ch \in choices : ScoreGE(RawScore(before, ch), Score(t, 1))
    THEN after \in BestChoices(before, choices)
    ELSE after = before

\* C7: every source key is replaced by a maximum-scoring value of the target
\* key column iff that score is >= threshold (inclusive), and is unchanged
\* otherwise; so each aligned key is the original or a target value, and rows
\* sharing a key get the same result.
C7_AlignIffScoreReachesThreshold ==
    pc = "aligned" =>
        /\ Len(c1) = Len(arg1)
        /\ \A col \in aligned_columns(variant) :
              LET choices == SetOfSeq(column_list(c2, col))
              IN  \A i \in 1..Len(c1) :
                     /\ AlignedAsClaimed(arg1[i][col], c1[i][col], choices, threshold)
                     /\ c1[i][col] = arg1[i][col] \/ c1[i][col] \in choices
                     /\ \A j \in 1..Len(c1) :
                           arg1[j][col] = arg1[i][col] => c1[j][col] = c1[i][col]

\* A key whose best score is exactly the threshold has been replaced.
C7_Witness ==
    /\ pc = "aligned"
    /\ threshold = 80
    /\ \E i \in 1..Len(c1) :
          /\ c1[i].vendorName_clean # arg1[i].vendorName_clean
          /\ ScoreEQ(RawScore(arg1[i].vendorName_clean, c1[i].vendorName_clean),
                     Score(threshold, 1))

\* Two frames with the same rows in the same order, equal outside the
\* aligned key columns.
SameButAlignedColumns(a, b) ==
    /\ Len(a) = Len(b)
    /\ \A i \in 1..Len(a) :
          /\ DOMAIN a[i] = DOMAIN b[i]
          /\ \A col \in DOMAIN a[i] \ aligned_columns(variant) : a[i][col] = b[i][col]

\* C8: the call leaves the target frame c2 and the caller's c1 as they were;
\* the returned frame has c1's rows in c1's order and differs from c1 only
\* in the aligned key columns.
C8_AlignFrame ==
    [][pc = "ready" /\ pc' = "aligned" =>
          /\ c2' = c2 /\ arg2' = c2
          /\ arg1' = c1
          /\ SameButAlignedColumns(c1, c1')]_vars

\* A call that rewrote a key of the returned frame, against a target that
\* has rows.
C8_Witness ==
    /\ pc = "aligned"
    /\ c2 # Empty
    /\ \E i \in 1..Len(c1) : c1[i].vendorName_clean # arg1[i].vendorName_clean


\* The first value of the target column, in row order, among those that
\* score highest against v
FirstBestChoice(v, choices) ==
    LET best == BestChoices(v, SetOfSeq(choices))
    IN  choices[CHOOSE j \in 1..Len(choices) :
                    /\ choices[j] \in best
                    /\ \A k \in 1..(j - 1) : choices[k] \notin best]

\* Several target values share the highest score against v and that score
\* reaches the threshold t.
TiedAtTop(v, choices, t) ==
    LET best == BestChoices(v, SetOfSeq(choices))
    IN  /\ Cardinality(best) >= 2
        /\ \E ch \in best : ScoreGE(RawScore(v, ch), Score(t, 1))

Reverse(q) == [i \in 1..Len(q) |-> q[Len(q) + 1 - i]]

\* C16: when several target values share the maximum score for a source key
\* (and that score is >= threshold), fuzzy_align_names selects the one that
\* comes first in the target table's row order.
C16_TieGoesToFirst ==
    pc = "aligned" =>
        \A col \in aligned_columns(variant) :
            \A i \in 1..Len(c1) :
                TiedAtTop(arg1[i][col], column_list(c2, col), threshold) =>
                    c1[i][col] = FirstBestChoice(arg1[i][col], column_list(c2, col))

\* A tie was settled by the row order: the same target with its rows
\* reversed gives another result.
C16_Witness ==
    /\ pc = "aligned"
    /\ \E i \in 1..Len(c1) :
          TiedAtTop(arg1[i].vendorName_clean, column_list(c2, "vendorName_clean"),
                    threshold)
    /\ fuzzy_align_names(variant, arg1, Reverse(c2), threshold) # c1


\* C18: a source key that already equals some value of the target key
\* column is left unchanged by fuzzy_align_names, whatever else the target
\* holds and in whatever order; so aligning the aligned frame against the
\* same target again changes no key.
C18_ExactMatchKept ==
    pc = "aligned" =>
        /\ \A col \in aligned_columns(variant) :
              \A i \in 1..Len(c1) :
                  arg1[i][col] \in SetOfSeq(column_list(c2, col)) =>
                      c1[i][col] = arg1[i][col]
        /\ fuzzy_align_names(variant, c1, c2, threshold) = c1


-----------------------------------------------------------------------------
(* The deduplication specification *)

\* The (vendor key, product key) pairs of the item-level specifications.
ItemKeys == {<<AB, AB>>, <<AB, ABC>>, <<ABC, AB>>}

\* The frames of module m of at most n rows with key pairs from keys.
ItemFrames(m, n, keys, prices) ==
    UNION { { [i \in 1..k |-> KeyedRow(m, RowIds[i], <<"N">>, f[i][1][1], f[i][1][2], f[i][2])] :
                f \in [1..k -> keys \X prices] } : k \in 0..n }

DedupPrices == {NaN, Num(1), Num(2)}

InitDedup ==
    /\ pc = "ready"
    /\ variant \in {"help", "app2"}
    /\ c1 \in ItemFrames(variant, MaxDedupRows, ItemKeys, DedupPrices)
    /\ c2 = Empty
    /\ c1_raw = Empty /\ c2_raw = Empty /\ c1_c = Empty /\ c2_c = Empty
    /\ arg1 = Empty /\ arg2 = Empty
    /\ vendors = Empty /\ items = Empty
    /\ vendors_c1 = Empty /\ vendors_c2 = Empty /\ df_result = Empty
    /\ percent_args = Empty /\ percent_result = Empty
    /\ threshold = 0 /\ selected_vendor = Empty

\* c1 = deduplicate_max_price(c1)   (app2.py: deduplicate_min_price)
CallDeduplicate ==
    /\ pc = "ready"
    /\ c1' = deduplicate(variant, c1)
    /\ arg1' = c1
    /\ pc' = "deduplicated"
    /\ UNCHANGED <<percent_args, percent_result>>
    /\ UNCHANGED <<variant, threshold, selected_vendor, c1_raw, c2_raw, c2,
                   c1_c, c2_c, vendors, items, vendors_c1, vendors_c2,
                   df_result, arg2>>

NextDedup == CallDeduplicate

SpecDedup == InitDedup /\ [][NextDedup]_vars

\* The (vendor key, product key) pair of a row of module m
PairOf(m, r) == <<r.vendorName_clean, r[ProductKeyCol(m)]>>
PairsOf(m, df) == {PairOf(m, df[i]) : i \in 1..Len(df)}

\* The non-NaN prices of the rows of df with the pair k
GroupPrices(m, df, k) ==
    {df[i].productPrice[1] : i \in {j \in 1..Len(df) :
                                      PairOf(m, df[j]) = k /\ df[j].productPrice # NaN}}

SetMax(S) == CHOOSE x \in S : \A y \in S : y <= x
SetMin(S) == CHOOSE x \in S : \A y \in S : x <= y

\* C4: deduplication returns exactly one row per distinct (vendor key,
\* product key) pair of its input; the kept price is the maximum (help.py)
\* or minimum (app2.py) of the group's non-null prices, and is null only if
\* every price of the group is null.
C4_DedupKeepsExtremePrice ==
    pc = "deduplicated" =>
        /\ PairsOf(variant, c1) = PairsOf(variant, arg1)
        /\ \A i, j \in 1..Len(c1) :
              PairOf(variant, c1[i]) = PairOf(variant, c1[j]) => i = j
        /\ \A i \in 1..Len(c1) :
              LET prices == GroupPrices(variant, arg1, PairOf(variant, c1[i]))
              IN  IF prices = {} THEN c1[i].productPrice = NaN
                  ELSE c1[i].productPrice =
                          Num(IF variant = "help" THEN SetMax(prices) ELSE SetMin(prices))

\* A group holding a null price and two different prices was collapsed.
C4_Witness ==
    /\ pc = "deduplicated"
    /\ \E i \in 1..Len(c1) :
          /\ Cardinality(GroupPrices(variant, arg1, PairOf(variant, c1[i]))) = 2
          /\ \E j \in 1..Len(arg1) :
                /\ PairOf(variant, arg1[j]) = PairOf(variant, c1[i])
                /\ arg1[j].productPrice = NaN


-----------------------------------------------------------------------------
(* The item-match specification: build_item_matches on two frames *)

\* The key pairs of the two frames: one shared, one of each frame alone.
JoinKeys1 == {<<AB, AB>>, <<AB, ABC>>}
JoinKeys2 == {<<AB, AB>>, <<ABC, AB>>}
JoinPrices == {NaN, Num(1), Num(2)}

InitJoin ==
    /\ pc = "ready"
    /\ variant \in {"help", "app2"}
    /\ c1 \in ItemFrames(variant, MaxJoinRows, JoinKeys1, JoinPrices)
    /\ c2 \in ItemFrames(variant, MaxJoinRows, JoinKeys2, JoinPrices)
    /\ c1_raw = Empty /\ c2_raw = Empty /\ c1_c = Empty /\ c2_c = Empty
    /\ arg1 = Empty /\ arg2 = Empty
    /\ vendors = Empty /\ items = Empty
    /\ vendors_c1 = Empty /\ vendors_c2 = Empty /\ df_result = Empty
    /\ percent_args = Empty /\ percent_result = Empty
    /\ threshold = 0 /\ selected_vendor = Empty

\* items = build_item_matches(c1, c2)
CallBuildItemMatches ==
    /\ pc = "ready"
    /\ items' = build_item_matches(variant, c1, c2)
    /\ arg1' = c1
    /\ arg2' = c2
    /\ pc' = "joined"
    /\ UNCHANGED <<percent_args, percent_result>>
    /\ UNCHANGED <<variant, threshold, selected_vendor, c1_raw, c2_raw, c1, c2,
                   c1_c, c2_c, vendors, vendors_c1, vendors_c2, df_result>>

NextJoin == CallBuildItemMatches

SpecJoin == InitJoin /\ [][NextJoin]_vars

\* At most one row per (vendor key, product key) pair
UniquePairs(m, df) ==
    \A i, j \in 1..Len(df) : PairOf(m, df[i]) = PairOf(m, df[j]) => i = j

\* The items row carries the input row r on its Company1 (Company2) side.
CarriesLeft(it, r) ==
    /\ it._merge # "right_only"
    /\ it.VendorID_c1 = r.VendorID /\ it.vendorName_c1 = r.vendorName
    /\ it.productID_c1 = r.productID /\ it.productName_c1 = r.productName
    /\ it.productPrice_c1 = r.productPrice
    /\ it.vendorName_clean = r.vendorName_clean
CarriesRight(it, r) ==
    /\ it._merge # "left_only"
    /\ it.VendorID_c2 = r.VendorID /\ it.vendorName_c2 = r.vendorName
    /\ it.productID_c2 = r.productID /\ it.productName_c2 = r.productName
    /\ it.productPrice_c2 = r.productPrice
    /\ it.vendorName_clean = r.vendorName_clean

StatusCount(its, statuses) ==
    Cardinality({n \in 1..Len(its) : its[n].match_status \in statuses})

\* C1: for two frames with at most one row per key pair, every input row is
\* in exactly one items row, each items row has one of the three statuses,
\* Matched + Only in Company1 counts the left frame's distinct pairs and
\* Matched + Only in Company2 the right frame's.
C1_JoinComplete ==
    pc = "joined" /\ UniquePairs(variant, c1) /\ UniquePairs(variant, c2) =>
        /\ \A i \in 1..Len(c1) :
              Cardinality({n \in 1..Len(items) : CarriesLeft(items[n], c1[i])}) = 1
        /\ \A i \in 1..Len(c2) :
              Cardinality({n \in 1..Len(items) : CarriesRight(items[n], c2[i])}) = 1
        /\ \A n \in 1..Len(items) :
              items[n].match_status \in
                  {"Matched", "Only in Company1", "Only in Company2"}
        /\ StatusCount(items, {"Matched", "Only in Company1"})
              = Cardinality(PairsOf(variant, c1))
        /\ StatusCount(items, {"Matched", "Only in Company2"})
              = Cardinality(PairsOf(variant, c2))

\* Two duplicate-free frames were joined into rows of all three statuses.
C1_Witness ==
    /\ pc = "joined"
    /\ UniquePairs(variant, c1) /\ UniquePairs(variant, c2)
    /\ \A st \in {"Matched", "Only in Company1", "Only in Company2"} :
          StatusCount(items, {st}) = 1

\* C3: price_relation_vs_c2 is non-null iff the row is Matched and both
\* prices are non-null, and is then Company1 Higher / Company1 Lower / Same
\* as price1 >, <, = price2.
C3_PriceRelation ==
    pc = "joined" =>
        \A n \in 1..Len(items) :
            LET it == items[n]
                comparable == /\ it.match_status = "Matched"
                              /\ it.productPrice_c1 # NaN
                              /\ it.productPrice_c2 # NaN
            IN  /\ (it.price_relation_vs_c2 # NaN_label) <=> comparable
                /\ comparable =>
                      /\ it.price_relation_vs_c2 = "Company1 Higher"
                            <=> it.productPrice_c1[1] > it.productPrice_c2[1]
                      /\ it.price_relation_vs_c2 = "Company1 Lower"
                            <=> it.productPrice_c1[1] < it.productPrice_c2[1]
                      /\ it.price_relation_vs_c2 = "Same"
                            <=> it.productPrice_c1[1] = it.productPrice_c2[1]

\* A Matched row without a relation (a null price) beside a Matched row
\* with one.
C3_Witness ==
    /\ pc = "joined"
    /\ \E n, k \in 1..Len(items) :
          /\ items[n].match_status = "Matched"
          /\ items[n].productPrice_c2 = NaN
          /\ items[n].price_relation_vs_c2 = NaN_label
          /\ items[k].price_relation_vs_c2 = "Company1 Lower"


-----------------------------------------------------------------------------
(* The vendor-index specification: build_vendor_index on two frames *)

\* Display names and keys: two spellings may share one key.
VendorDisplayNames == {<<"A", "B">>, <<"a", "b">>}
VendorKeys == {AB, ABC}

VendorFrames(m) ==
    KeyedFrames(m, MaxVendorRows, VendorDisplayNames, VendorKeys, {AB}, {Num(1)})

InitVendors ==
    /\ pc = "ready"
    /\ variant \in {"help", "app2"}
    /\ c1 \in VendorFrames(variant)
    /\ c2 \in VendorFrames(variant)
    /\ c1_raw = Empty /\ c2_raw = Empty /\ c1_c = Empty /\ c2_c = Empty
    /\ arg1 = Empty /\ arg2 = Empty
    /\ vendors = Empty /\ items = Empty
    /\ vendors_c1 = Empty /\ vendors_c2 = Empty /\ df_result = Empty
    /\ percent_args = Empty /\ percent_result = Empty
    /\ threshold = 0 /\ selected_vendor = Empty

\* vendors = build_vendor_index(c1, c2)
CallBuildVendorIndex ==
    /\ pc = "ready"
    /\ vendors' = build_vendor_index(variant, c1, c2)
    /\ arg1' = c1
    /\ arg2' = c2
    /\ pc' = "indexed"
    /\ UNCHANGED <<percent_args, percent_result>>
    /\ UNCHANGED <<variant, threshold, selected_vendor, c1_raw, c2_raw, c1, c2,
                   c1_c, c2_c, items, vendors_c1, vendors_c2, df_result>>

NextVendors == CallBuildVendorIndex

SpecVendors == InitVendors /\ [][NextVendors]_vars

VendorKeysOf(df) == {df[i].vendorName_clean : i \in 1..Len(df)}

VendorRowsOf(k) == {n \in 1..Len(vendors) : vendors[n].vendorName_clean = k}

\* C2: build_vendor_index returns exactly one row per distinct
\* vendorName_clean of either input, also when rows with different display
\* names share one vendorName_clean.
C2_OneRowPerVendorKey ==
    pc = "indexed" =>
        /\ \A k \in VendorKeysOf(c1) \cup VendorKeysOf(c2) :
              Cardinality(VendorRowsOf(k)) = 1
        /\ \A n \in 1..Len(vendors) :
              vendors[n].vendorName_clean \in VendorKeysOf(c1) \cup VendorKeysOf(c2)


-----------------------------------------------------------------------------
(* The discount specification: the vendor list and get_vendor_discounts *)

DiscountVendorKeys == {AB, ABC}
DiscountProductKeys == {AB, ABC}
DiscountPrices1 == {NaN, Num(8), Num(10)}
DiscountPrices2 == {Num(5), Num(9)}

InitDiscount ==
    /\ pc = "ready"
    /\ variant = "help"
    /\ c1 \in KeyedFrames("help", MaxDiscountRows, {<<"N">>}, DiscountVendorKeys,
                          {AB}, DiscountPrices1)
    /\ c2 \in KeyedFrames("help", MaxDiscountRows, {<<"N">>}, {AB},
                          DiscountProductKeys, DiscountPrices2)
    /\ c1_raw = Empty /\ c2_raw = Empty /\ c1_c = Empty /\ c2_c = Empty
    /\ arg1 = Empty /\ arg2 = Empty
    /\ vendors = Empty /\ items = Empty
    /\ vendors_c1 = Empty /\ vendors_c2 = Empty /\ df_result = Empty
    /\ percent_args = Empty /\ percent_result = Empty
    /\ threshold = 0 /\ selected_vendor = Empty

\* vendors_c1, vendors_c2 = get_vendors_with_price_duplicates(c1), (c2);
\* c1_c, c2_c = c1.copy(), c2.copy()
FindPriceDuplicates ==
    /\ pc = "ready"
    /\ vendors_c1' = get_vendors_with_price_duplicates(c1)
    /\ vendors_c2' = get_vendors_with_price_duplicates(c2)
    /\ c1_c' = c1
    /\ c2_c' = c2
    /\ pc' = "listed"
    /\ UNCHANGED <<percent_args, percent_result>>
    /\ UNCHANGED <<variant, threshold, selected_vendor, c1_raw, c2_raw, c1, c2,
                   vendors, items, df_result, arg1, arg2>>

\* df_result = get_vendor_discounts(vendor_name, c1_c, c2_c)
CallVendorDiscounts ==
    /\ pc = "listed"
    /\ \E vendor_name \in DiscountVendorKeys :
          /\ selected_vendor' = vendor_name
          /\ df_result' = get_vendor_discounts(vendor_name, c1_c, c2_c)
    /\ arg1' = c1_c
    /\ arg2' = c2_c
    /\ pc' = "shown"
    /\ UNCHANGED <<percent_args, percent_result>>
    /\ UNCHANGED <<variant, threshold, c1_raw, c2_raw, c1, c2, c1_c, c2_c,
                   vendors, items, vendors_c1, vendors_c2>>

NextDiscount == FindPriceDuplicates \/ CallVendorDiscounts

SpecDiscount == InitDiscount /\ [][NextDiscount]_vars

\* The distinct non-null prices vendor v has for product p in df
PricesOf(df, v, p) == GroupPrices("help", df, <<v, p>>)

ProductKeysOf(df) == {df[i].productName_clean : i \in 1..Len(df)}

\* The value, in hundredths, of a text "<digits>.<one or two digits>%";
\* -1 for any other text.
PercentHundredths(text) ==
    LET IsDigit(ch) == \E d \in 0..9 : digit_char(d) = ch
        Val(ch) == CHOOSE d \in 0..9 : digit_char(d) = ch
        dots == {i \in 1..Len(text) : text[i] = "."}
    IN  IF Len(text) < 4 \/ text[Len(text)] # "%" \/ Cardinality(dots) # 1 THEN -1
        ELSE LET dot == CHOOSE i \in dots : TRUE
                 ints == SubSeq(text, 1, dot - 1)
                 frac == SubSeq(text, dot + 1, Len(text) - 1)
             IN  IF \/ ints = <<>> \/ Len(frac) \notin {1, 2}
                    \/ \E i \in 1..Len(ints) : ~IsDigit(ints[i])
                    \/ \E i \in 1..Len(frac) : ~IsDigit(frac[i])
                 THEN -1
                 ELSE LET RECURSIVE IntVal(_)
                          IntVal(q) == IF q = <<>> THEN 0
                                       ELSE 10 * IntVal(SubSeq(q, 1, Len(q) - 1))
                                               + Val(q[Len(q)])
                      IN  100 * IntVal(ints)
                            + (IF Len(frac) = 1 THEN 10 * Val(frac[1]) ELSE IntVal(frac))

\* text is (max - min) / max x 100 to the nearest hundredth, with "%".
PercentRounded(text, lo, hi) ==
    LET h == PercentHundredths(text)
        err == h * hi - (hi - lo) * 10000
    IN  h >= 0 /\ 2 * err <= hi /\ -2 * err <= hi

\* text is exactly (max - min) / max x 100, with "%".
PercentExact(text, lo, hi) ==
    LET h == PercentHundredths(text)
    IN  h >= 0 /\ h * hi = (hi - lo) * 10000

\* Exactly one row for each product of the vendor with at least 2 distinct
\* non-null prices in a source, none for any other product.
DiscountRowsAsClaimed ==
    \A p \in ProductKeysOf(c1_c) \cup ProductKeysOf(c2_c) \cup DiscountProductKeys :
        Cardinality({n \in 1..Len(df_result) : df_result[n].productName_clean = p})
            = IF \/ Cardinality(PricesOf(c1_c, selected_vendor, p)) >= 2
                 \/ Cardinality(PricesOf(c2_c, selected_vendor, p)) >= 2
              THEN 1 ELSE 0

\* The min and max of a source with at least 2 distinct prices; nulls for a
\* source with fewer.
DiscountPricesAsClaimed(prices, discounted, original, pct) ==
    IF Cardinality(prices) >= 2
    THEN discounted = Num(SetMin(prices)) /\ original = Num(SetMax(prices))
    ELSE discounted = NaN /\ original = NaN /\ pct = NaN

\* C5 (amended): get_vendor_discounts returns a row for product p iff p has
\* at least 2 distinct non-null prices of the vendor in source 1 or source 2;
\* a source with at least 2 distinct prices has discounted_price = min,
\* original_price = max and discount_percent = the text of
\* (max - min) / max x 100 rounded to 2 decimals followed by "%"; a source
\* with fewer has null columns.
C5_DiscountRounded ==
    pc = "shown" =>
        /\ DiscountRowsAsClaimed
        /\ \A n \in 1..Len(df_result) :
              LET row == df_result[n]
                  p1 == PricesOf(c1_c, selected_vendor, row.productName_clean)
                  p2 == PricesOf(c2_c, selected_vendor, row.productName_clean)
              IN  /\ DiscountPricesAsClaimed(p1, row.discounted_price_c1,
                         row.original_price_c1, row.discount_percent_c1)
                  /\ DiscountPricesAsClaimed(p2, row.discounted_price_c2,
                         row.original_price_c2, row.discount_percent_c2)
                  /\ Cardinality(p1) >= 2 =>
                        PercentRounded(row.discount_percent_c1, SetMin(p1), SetMax(p1))
                  /\ Cardinality(p2) >= 2 =>
                        PercentRounded(row.discount_percent_c2, SetMin(p2), SetMax(p2))

\* C5 (as stated): the same with discount_percent exactly
\* (max - min) / max x 100.
C5_DiscountExact ==
    pc = "shown" =>
        /\ DiscountRowsAsClaimed
        /\ \A n \in 1..Len(df_result) :
              LET row == df_result[n]
                  p1 == PricesOf(c1_c, selected_vendor, row.productName_clean)
                  p2 == PricesOf(c2_c, selected_vendor, row.productName_clean)
              IN  /\ DiscountPricesAsClaimed(p1, row.discounted_price_c1,
                         row.original_price_c1, row.discount_percent_c1)
                  /\ DiscountPricesAsClaimed(p2, row.discounted_price_c2,
                         row.original_price_c2, row.discount_percent_c2)
                  /\ Cardinality(p1) >= 2 =>
                        PercentExact(row.discount_percent_c1, SetMin(p1), SetMax(p1))
                  /\ Cardinality(p2) >= 2 =>
                        PercentExact(row.discount_percent_c2, SetMin(p2), SetMax(p2))

\* The vendor has prices 10 and 8 for a product in source 1 and a single
\* price in source 2: one row, 8 / 10 / "20.0%", no source-2 entry.
C5_Witness ==
    /\ pc = "shown"
    /\ PricesOf(c1_c, selected_vendor, AB) = {8, 10}
    /\ Cardinality(PricesOf(c2_c, selected_vendor, AB)) = 1
    /\ Len(df_result) = 1
    /\ df_result[1].discounted_price_c1 = Num(8)
    /\ df_result[1].original_price_c1 = Num(10)
    /\ df_result[1].discount_percent_c1 = <<"2", "0", ".", "0", "%">>
    /\ df_result[1].discount_percent_c2 = NaN

\* Whether vendor k has a (vendor, product) group of more than one distinct
\* price in df
HasMultiPriceGroup(df, k) ==
    \E i \in 1..Len(df) :
        /\ df[i].vendorName_clean = k
        /\ Cardinality(PricesOf(df, k, df[i].productName_clean)) > 1

\* C6: the vendor-selection list holds vendor key k iff k has a (vendor,
\* product) group with more than one distinct price in source 1 or in
\* source 2.
C6_VendorListEitherSource ==
    pc \in {"listed", "shown"} =>
        \A k \in DiscountVendorKeys \cup VendorKeysOf(c1) \cup VendorKeysOf(c2) :
            k \in SetOfSeq(all_problem_vendors(vendors_c1, vendors_c2))
                <=> HasMultiPriceGroup(c1, k) \/ HasMultiPriceGroup(c2, k)

\* A vendor whose only multi-price product is in source 2 is in the list.
C6_Witness ==
    /\ pc = "listed"
    /\ ~HasMultiPriceGroup(c1, AB)
    /\ HasMultiPriceGroup(c2, AB)
    /\ AB \in SetOfSeq(all_problem_vendors(vendors_c1, vendors_c2))


-----------------------------------------------------------------------------
(* The pipeline specification: the scripts from the loaded frames to the  *)
(* tables (app.py 35-56 and 202-213, app2.py 175-190)                     *)

\* One vendor in three spellings: upper case with a doubled space, lower
\* case (AB_C), words swapped.
VendorUpper == <<"A", "B", " ", " ", "C">>
VendorSwapped == <<"c", " ", "a", "b">>

PipelineRows1 ==
    [VendorID : {<<"v">>}, vendorName : {VendorUpper, VendorSwapped},
     productID : {<<"p">>}, productName : {ABC},
     productPrice : {Str(<<"1", "2">>), Str(<<"1", "0">>), Str(<<"x">>)}]

PipelineRows2 ==
    [VendorID : {<<"v">>}, vendorName : {AB_C},
     productID : {<<"p">>}, productName : {ABC, ABD},
     productPrice : {Str(<<"1", "0">>), Str(<<"x">>)}]

\* Mutant: the copy is a deduplicated frame.
df_copy_deduplicated(df) == deduplicate_max_price(df)

\* df.copy()
df_copy(df) == df

\* threshold=80 in app.py, threshold=90 in app2.py; the comment of app.py
\* invites adjusting it, 100 is the strictest value.
PipelineThreshold(m) == IF m = "help" THEN 80 ELSE 90

InitPipeline ==
    /\ pc = "loaded"
    /\ variant \in {"help", "app2"}
    /\ threshold \in {PipelineThreshold(variant), 100}
    /\ c1_raw \in Frames(PipelineRows1, MaxPipelineRows)
    /\ c2_raw \in Frames(PipelineRows2, MaxPipelineRows)
    /\ c1 = Empty /\ c2 = Empty /\ c1_c = Empty /\ c2_c = Empty
    /\ arg1 = Empty /\ arg2 = Empty
    /\ vendors = Empty /\ items = Empty
    /\ vendors_c1 = Empty /\ vendors_c2 = Empty /\ df_result = Empty
    /\ percent_args = Empty /\ percent_result = Empty
    /\ selected_vendor = Empty

\* c1 = normalize(c1_raw); c2 = normalize(c2_raw)
StepNormalize ==
    /\ pc = "loaded"
    /\ c1' = normalize(variant, c1_raw)
    /\ c2' = normalize(variant, c2_raw)
    /\ pc' = "normalized"
    /\ UNCHANGED <<variant, threshold, selected_vendor, c1_raw, c2_raw, c1_c, c2_c,
                   vendors, items, vendors_c1, vendors_c2, df_result, arg1, arg2,
                   percent_args, percent_result>>

\* c1 = fuzzy_align_names(c1, c2, threshold): after normalize in app.py,
\* after the deduplication in app2.py.
StepAlign ==
    /\ pc = IF variant = "help" THEN "normalized" ELSE "deduplicated"
    /\ c1' = fuzzy_align_call(variant, c1, c2, threshold).out
    /\ c2' = fuzzy_align_call(variant, c1, c2, threshold).c2
    /\ pc' = "aligned"
    /\ UNCHANGED <<variant, threshold, selected_vendor, c1_raw, c2_raw, c1_c, c2_c,
                   vendors, items, vendors_c1, vendors_c2, df_result, arg1, arg2,
                   percent_args, percent_result>>

\* vendors = build_vendor_index(c1, c2)
StepVendorIndex ==
    /\ pc = "aligned"
    /\ vendors' = build_vendor_index(variant, c1, c2)
    /\ pc' = "indexed"
    /\ UNCHANGED <<variant, threshold, selected_vendor, c1_raw, c2_raw, c1, c2,
                   c1_c, c2_c, items, vendors_c1, vendors_c2, df_result, arg1, arg2,
                   percent_args, percent_result>>

\* app.py 45-49: the vendor lists and the copies c1_c, c2_c
StepPriceDuplicates ==
    /\ pc = "indexed"
    /\ variant = "help"
    /\ vendors_c1' = get_vendors_with_price_duplicates(c1)
    /\ vendors_c2' = get_vendors_with_price_duplicates(c2)
    /\ c1_c' = df_copy(c1)
    /\ c2_c' = df_copy(c2)
    /\ pc' = "listed"
    /\ UNCHANGED <<variant, threshold, selected_vendor, c1_raw, c2_raw, c1, c2,
                   vendors, items, df_result, arg1, arg2,
                   percent_args, percent_result>>

\* c1 = deduplicate_max_price(c1); c2 = deduplicate_max_price(c2)
\* (app2.py: deduplicate_min_price, straight after normalize)
StepDeduplicate ==
    /\ pc = IF variant = "help" THEN "listed" ELSE "normalized"
    /\ c1' = deduplicate(variant, c1)
    /\ c2' = deduplicate(variant, c2)
    /\ pc' = "deduplicated"
    /\ UNCHANGED <<variant, threshold, selected_vendor, c1_raw, c2_raw, c1_c, c2_c,
                   vendors, items, vendors_c1, vendors_c2, df_result, arg1, arg2,
                   percent_args, percent_result>>

\* items = build_item_matches(c1, c2)
StepItemMatches ==
    /\ pc = IF variant = "help" THEN "deduplicated" ELSE "indexed"
    /\ items' = build_item_matches(variant, c1, c2)
    /\ arg1' = c1
    /\ arg2' = c2
    /\ pc' = "joined"
    /\ UNCHANGED <<variant, threshold, selected_vendor, c1_raw, c2_raw, c1, c2,
                   c1_c, c2_c, vendors, vendors_c1, vendors_c2, df_result,
                   percent_args, percent_result>>

\* app.py 202-213: a vendor of all_problem_vendors is selected and
\* df_result = get_vendor_discounts(selected_vendor, c1_c, c2_c)
StepDiscounts ==
    /\ pc = "joined"
    /\ variant = "help"
    /\ \E vendor_name \in SetOfSeq(all_problem_vendors(vendors_c1, vendors_c2)) :
          /\ selected_vendor' = vendor_name
          /\ df_result' = get_vendor_discounts(vendor_name, c1_c, c2_c)
    /\ arg1' = c1_c
    /\ arg2' = c2_c
    /\ pc' = "shown"
    /\ UNCHANGED <<variant, threshold, c1_raw, c2_raw, c1, c2, c1_c, c2_c,
                   vendors, items, vendors_c1, vendors_c2,
                   percent_args, percent_result>>

NextPipeline ==
    \/ StepNormalize
    \/ StepAlign
    \/ StepVendorIndex
    \/ StepPriceDuplicates
    \/ StepDeduplicate
    \/ StepItemMatches
    \/ StepDiscounts

SpecPipeline == InitPipeline /\ [][NextPipeline]_vars

\* A raw price cell that spells no number
Unparseable(cell) == Len(cell) = 2 /\ ~IsDigits(cell[2])

\* The items rows of the key pair k
ItemRowsOf(k) ==
    {n \in 1..Len(items) :
        <<items[n].vendorName_clean, items[n].productName_clean>> = k}

\* Every row of the side `own` (the frame before deduplication, row for row
\* the raw frame) whose raw price does not parse has a null price, and its
\* key pair is in items with the status that the other side's pairs give.
UnparsedRowsKept(raw, own, other, alone) ==
    \A i \in 1..Len(raw) :
        Unparseable(raw[i].productPrice) =>
            /\ own[i].productPrice = NaN
            /\ ItemRowsOf(PairOf("help", own[i])) # {}
            /\ \A n \in ItemRowsOf(PairOf("help", own[i])) :
                  items[n].match_status =
                      IF PairOf("help", own[i]) \in PairsOf("help", other)
                      THEN "Matched" ELSE alone

\* C11: a record whose price cannot be parsed gets a null price (never 0);
\* after alignment, deduplication and the outer join its key pair is still
\* in the item table with the right match_status, and a Matched row with a
\* null price on either side has a null price relation.
C11_UnparsedPriceKept ==
    variant = "help" /\ pc \in {"joined", "shown"} =>
        /\ Len(c1_c) = Len(c1_raw) /\ Len(c2_c) = Len(c2_raw)
        /\ UnparsedRowsKept(c1_raw, c1_c, c2_c, "Only in Company1")
        /\ UnparsedRowsKept(c2_raw, c2_c, c1_c, "Only in Company2")
        /\ \A n \in 1..Len(items) :
              /\ items[n].productPrice_c1 # Num(0)
              /\ items[n].productPrice_c2 # Num(0)
              /\ items[n].match_status = "Matched"
                    /\ (items[n].productPrice_c1 = NaN \/ items[n].productPrice_c2 = NaN)
                    => items[n].price_relation_vs_c2 = NaN_label

\* A row with an unparseable price was joined: Matched, null price on the
\* Company1 side, a number on the other, no price relation.
C11_Witness ==
    /\ variant = "help" /\ pc = "joined"
    /\ \E i \in 1..Len(c1_raw) : Unparseable(c1_raw[i].productPrice)
    /\ \E n \in 1..Len(items) :
          /\ items[n].match_status = "Matched"
          /\ items[n].productPrice_c1 = NaN
          /\ items[n].productPrice_c2 = Num(10)
          /\ items[n].price_relation_vs_c2 = NaN_label


\* The two catalogs of the scenario: one record each, the same vendor in a
\* different case and spacing, the same product, prices 12 and 10.
ScenarioLoaded ==
    /\ c1_raw = << [VendorID |-> <<"v">>, vendorName |-> VendorUpper,
                    productID |-> <<"p">>, productName |-> ABC,
                    productPrice |-> Str(<<"1", "2">>)] >>
    /\ c2_raw = << [VendorID |-> <<"v">>, vendorName |-> AB_C,
                    productID |-> <<"p">>, productName |-> ABC,
                    productPrice |-> Str(<<"1", "0">>)] >>

\* C12: with source 1 holding one vendor / product at 12 and source 2 the
\* same vendor in another case and spacing / the same product at 10, the
\* pipeline (threshold <= 100) yields one vendor row, Matched, and one item
\* row, Matched, with price relation Company1 Higher.
C12_ScenarioMatched ==
    ScenarioLoaded /\ pc \in {"joined", "shown"} =>
        /\ Len(vendors) = 1
        /\ vendors[1].match_status = "Matched"
        /\ Len(items) = 1
        /\ items[1].match_status = "Matched"
        /\ items[1].price_relation_vs_c2 = "Company1 Higher"

\* The scenario has run through app.py's pipeline at the strictest threshold;
\* the vendor key of source 1 was rewritten by the alignment.
C12_Witness ==
    /\ ScenarioLoaded /\ pc = "joined" /\ variant = "help" /\ threshold = 100
    /\ arg1[1].vendorName_clean = AB_C
    /\ normalize("help", c1_raw)[1].vendorName_clean # AB_C
    /\ items[1].productPrice_c1 = Num(12)
    /\ items[1].productPrice_c2 = Num(10)


-----------------------------------------------------------------------------
(* The percent specification: percent(n, denom) on counts *)

InitPercent ==
    /\ pc = "ready"
    /\ variant \in {"help", "app2"}
    /\ percent_args \in (0..MaxCount) \X (0..MaxCount)
    /\ percent_result = Empty
    /\ c1_raw = Empty /\ c2_raw = Empty
    /\ c1 = Empty /\ c2 = Empty /\ c1_c = Empty /\ c2_c = Empty
    /\ arg1 = Empty /\ arg2 = Empty
    /\ vendors = Empty /\ items = Empty
    /\ vendors_c1 = Empty /\ vendors_c2 = Empty /\ df_result = Empty
    /\ threshold = 0 /\ selected_vendor = Empty

\* percent(n, denom)
CallPercent ==
    /\ pc = "ready"
    /\ percent_result' = percent(variant, percent_args[1], percent_args[2])
    /\ pc' = "computed"
    /\ UNCHANGED <<variant, threshold, selected_vendor, c1_raw, c2_raw, c1, c2,
                   c1_c, c2_c, vendors, items, vendors_c1, vendors_c2, df_result,
                   arg1, arg2, percent_args>>

NextPercent == CallPercent

SpecPercent == InitPercent /\ [][NextPercent]_vars

\* The unit of the configured precision as a denominator: integers in
\* help.py, hundredths in app2.py.
PrecisionOf(m) == IF m = "app2" THEN 100 ELSE 1

\* C13: percent(n, d) is 0 when d = 0 and otherwise 100 * n / d rounded to
\* the precision of the module (nearest integer in help.py, 2 decimals in
\* app2.py); percent(0, 0) = 0, percent(3, 4) = 75, and for 0 <= n <= d with
\* d > 0 the result is within 0..100.
C13_PercentRounded ==
    pc = "computed" =>
        LET n == percent_args[1]
            d == percent_args[2]
            a == percent_result[1]
            q == percent_result[2]
            err == a * d - 100 * n * q
        IN  /\ q = PrecisionOf(variant)
            /\ d = 0 => a = 0
            /\ d # 0 => 2 * err <= d /\ -2 * err <= d
            /\ n = 3 /\ d = 4 => a = 75 * q
            /\ n <= d /\ d > 0 => 0 <= a /\ a <= 100 * q

\* percent(3, 4) has returned 75.
C13_Witness ==
    /\ pc = "computed"
    /\ variant = "help"
    /\ percent_args = <<3, 4>>
    /\ percent_result = <<75, 1>>


\* The join-key pair of an items row.  app2.py drops its join column, which
\* was a copy of productName: the pair is read off the product name of the
\* side that has the row.
ItemPairOf(m, it) ==
    IF m = "app2"
    THEN <<it.vendorName_clean,
           IF it._merge = "right_only" THEN it.productName_c2 ELSE it.productName_c1>>
    ELSE <<it.vendorName_clean, it.productName_clean>>

\* C14: in each pipeline run both tables handed to build_item_matches hold
\* at most one row per join-key pair, so the item table has exactly one row
\* per distinct (vendor key, product key) pair of both sources.
C14_ItemsOnePerPair ==
    pc = "joined" =>
        /\ UniquePairs(variant, arg1)
        /\ UniquePairs(variant, arg2)
        /\ \A k \in PairsOf(variant, arg1) \cup PairsOf(variant, arg2) :
              Cardinality({n \in 1..Len(items) : ItemPairOf(variant, items[n]) = k}) = 1
        /\ \A n \in 1..Len(items) :
              ItemPairOf(variant, items[n])
                  \in PairsOf(variant, arg1) \cup PairsOf(variant, arg2)


\* The frame `kept` has one row per row of `raw`, in the same order: the
\* same record, its price parsed.
RowForRow(raw, kept) ==
    /\ Len(kept) = Len(raw)
    /\ \A i \in 1..Len(raw) :
          /\ kept[i].vendorName = raw[i].vendorName
          /\ kept[i].productName = raw[i].productName
          /\ kept[i].productPrice = to_numeric(raw[i].productPrice)

\* C15: in app.py the catalogs given to get_vendors_with_price_duplicates
\* and get_vendor_discounts are the normalized and aligned tables as they
\* were before deduplicate_max_price: one row per raw input row, every price
\* observation present, unchanged by the later deduplication of c1 / c2.
C15_DiscountsSeeAllPrices ==
    [][variant = "help" =>
          /\ pc' = "listed" =>
                /\ c1_c' = c1 /\ c2_c' = c2
                /\ vendors_c1' = get_vendors_with_price_duplicates(c1_c')
                /\ vendors_c2' = get_vendors_with_price_duplicates(c2_c')
          /\ pc' \in {"listed", "deduplicated", "joined", "shown"} =>
                RowForRow(c1_raw, c1_c') /\ RowForRow(c2_raw, c2_c')
          /\ pc \in {"listed", "deduplicated", "joined"} =>
                c1_c' = c1_c /\ c2_c' = c2_c
          /\ pc' = "shown" => arg1' = c1_c /\ arg2' = c2_c]_vars

\* The deduplication has dropped a price from c1 and the discount table
\* shows it all the same: 10 against 12.
C15_Witness ==
    /\ variant = "help" /\ pc = "shown"
    /\ Len(c1) < Len(c1_c)
    /\ \E n \in 1..Len(df_result) :
          /\ df_result[n].discounted_price_c1 = Num(10)
          /\ df_result[n].original_price_c1 = Num(12)


\* C17: get_vendor_discounts(k, c1, c2) returns at least one row iff k is in
\* get_vendors_with_price_duplicates(c1) or in
\* get_vendors_with_price_duplicates(c2): every vendor of the selection list
\* has a non-empty discount table and no other vendor has one.
C17_DiscountsIffListed ==
    pc = "shown" =>
        (Len(df_result) >= 1
            <=> selected_vendor \in SetOfSeq(vendors_c1) \cup SetOfSeq(vendors_c2))

\* A vendor listed for source 2 alone has a discount table with rows, while
\* another vendor is listed for source 1.
C17_Witness ==
    /\ pc = "shown"
    /\ selected_vendor \in SetOfSeq(vendors_c2)
    /\ selected_vendor \notin SetOfSeq(vendors_c1)
    /\ vendors_c1 # Empty
    /\ Len(df_result) >= 1


=============================================================================
